---- MODULE Spec2Model ----
(***************************************************************************)
(* gpsd-exporter: the connection supervisor of main.go (reader goroutine   *)
(* and poll ticker goroutine sharing conn) and the dispatcher/projector of *)
(* gpsd.go (processLine, updateMetrics, updateSatellite) over the metric   *)
(* registry (dynMetricGauges, dynMetricGaugeVecs, metricVersion,           *)
(* metricLastPoll).                                                        *)
(*                                                                         *)
(* The two goroutines share conn without synchronisation.  Every read and  *)
(* every write of conn is a step of its own, and the steps of the two      *)
(* goroutines interleave in every order.                                   *)
(***************************************************************************)
EXTENDS Integers, Sequences, FiniteSets, TLC

\* How many times net.Dial may succeed in one run.
MaxDials == 2
\* How many times the poll ticker may fire in one run.
MaxTicks == 2

MinLineLenEight == 4 + 4

\* len(line) < 16 in processLine.
MinLineLen == 16

\* The bytes the reader hands to conn.Write after a dial.
ReaderCommand == "?WATCH={\"enable\": true}\n?POLL;\n"

PollTickCommandShort == "?POLL;\n"

\* The bytes the poll ticker hands to conn.Write on a tick.
PollTickCommand == "?WATCH={\"enable\": true}\n?POLL;\n"

Nil == 0

EmptyMap == [k \in {} |-> 0]

\* m[k] = v on a Go map.
Put(m, k, v) == (k :> v) @@ m

(***************************************************************************)
(* The record shapes: for every struct its fields in declaration order,    *)
(* each with its json tag and its Go kind.                                 *)
(***************************************************************************)
Fld(k, t) == [key |-> k, kind |-> t]

Floats(keys) == [i \in 1..Len(keys) |-> Fld(keys[i], "float64")]

TPV ==
  << Fld("device", "string"), Fld("mode", "float64"), Fld("status", "float64"),
     Fld("time", "string"), Fld("altHAE", "float64"), Fld("altMSL", "float64"),
     Fld("climb", "float64"), Fld("datum", "string") >>
  \o Floats(<< "depth", "dgpsAge", "dgpsSta", "epc", "epd", "eph", "eps", "ept",
               "epx", "epy", "epv", "geoidSep", "lat", "leapseconds", "lon",
               "track", "magtrack", "magvar", "speed", "ecefx", "ecefy", "ecefz",
               "ecefpAcc", "ecefvx", "ecefvy", "ecefvz", "ecefvAcc", "sep",
               "relD", "relE", "relN", "velD", "velE", "velN", "wanglem",
               "wangler", "wanglet", "wspeedr", "wspeedt" >>)

SKY ==
  << Fld("device", "string") >>
  \o Floats(<< "nSat", "gdop", "hdop", "pdop", "prRes", "qual" >>)
  \o << Fld("satellites", "slice"), Fld("tdop", "float64"), Fld("time", "string") >>
  \o Floats(<< "uSat", "vdop", "xdop", "ydop" >>)

Satellite ==
  Floats(<< "PRN", "az", "el", "ss" >>)
  \o << Fld("used", "bool") >>
  \o Floats(<< "gnssid", "svid", "sigid", "freqid", "health" >>)

GST ==
  << Fld("device", "string"), Fld("time", "string") >>
  \o Floats(<< "rms", "major", "minor", "orient", "lat", "lon", "alt" >>)

TOFF ==
  << Fld("device", "string") >>
  \o Floats(<< "real_sec", "real_nsec", "clock_sec", "clock_nsec" >>)

PPS ==
  << Fld("device", "string") >>
  \o Floats(<< "real_sec", "real_nsec", "clock_sec", "clock_nsec", "precision" >>)
  \o << Fld("shm", "string"), Fld("qErr", "float64") >>

OSC ==
  << Fld("device", "string"), Fld("running", "bool"), Fld("reference", "bool"),
     Fld("disciplined", "bool"), Fld("delta", "float64") >>

\* The POLL keys processLine decodes, each with the struct of its array's
\* elements; the key is also the namespace handed to updateMetrics.
PollShapes == {"sky", "tpv", "gst", "pps", "toff", "osc"}

Schema(ns) ==
  CASE ns = "sky" -> SKY
    [] ns = "tpv" -> TPV
    [] ns = "gst" -> GST
    [] ns = "pps" -> PPS
    [] ns = "toff" -> TOFF
    [] ns = "osc" -> OSC

\* The POLL keys processLine skips.
PollIgnored == {"class", "active", "time"}

(***************************************************************************)
(* JSON values as encoding/json sees them.  Every value carries all the    *)
(* fields, and t says which one is meant.                                  *)
(***************************************************************************)
JNull == [t |-> "null", n |-> 0, s |-> "", b |-> FALSE, a |-> << >>, o |-> EmptyMap]

JNum(x) == [JNull EXCEPT !.t = "num", !.n = x]

JStr(x) == [JNull EXCEPT !.t = "str", !.s = x]

JBool(x) == [JNull EXCEPT !.t = "bool", !.b = x]

JArr(x) == [JNull EXCEPT !.t = "arr", !.a = x]

JObj(x) == [JNull EXCEPT !.t = "obj", !.o = x]

(***************************************************************************)
(* json.Unmarshal into a struct: a key the object lacks and a null leave   *)
(* the field at its zero value; a value of the wrong JSON type leaves the  *)
(* field at its zero value too, decoding goes on with the next field, and  *)
(* Unmarshal returns the error when it is done.  A decoded field is        *)
(* [n, s, b, sats], of which the field's kind says which one is meant.     *)
(***************************************************************************)
Zero == [n |-> 0, s |-> "", b |-> FALSE, sats |-> << >>, err |-> FALSE]

DecodeScalar(kind, v) ==
  CASE v.t = "null" -> Zero
    [] kind = "float64" /\ v.t = "num" -> [Zero EXCEPT !.n = v.n]
    [] kind = "string" /\ v.t = "str" -> [Zero EXCEPT !.s = v.s]
    [] kind = "bool" /\ v.t = "bool" -> [Zero EXCEPT !.b = v.b]
    [] OTHER -> [Zero EXCEPT !.err = TRUE]

\* Whether decoding the sequence ds of decoded values met a type error.
AnyErr(ds) == \E j \in 1..Len(ds) : ds[j].err

\* A Satellite from one element of the satellites array: its fields in
\* declaration order, and whether a type error was met.
DecodeSatellite(v) ==
  IF v.t = "obj"
  THEN [i \in 1..Len(Satellite) |->
          IF Satellite[i].key \in DOMAIN v.o
          THEN DecodeScalar(Satellite[i].kind, v.o[Satellite[i].key])
          ELSE Zero]
  ELSE [i \in 1..Len(Satellite) |-> [Zero EXCEPT !.err = (v.t # "null")]]

\* The []Satellite field of SKY.
DecodeSatellites(v) ==
  CASE v.t = "null" -> Zero
    [] v.t = "arr" ->
         [Zero EXCEPT !.sats = [j \in 1..Len(v.a) |-> DecodeSatellite(v.a[j])],
                      !.err = \E j \in 1..Len(v.a) : AnyErr(DecodeSatellite(v.a[j]))]
    [] OTHER -> [Zero EXCEPT !.err = TRUE]

\* One element of a POLL array into the struct of namespace ns: its fields
\* in declaration order.
DecodeStruct(ns, v) ==
  IF v.t = "obj"
  THEN [i \in 1..Len(Schema(ns)) |->
          IF Schema(ns)[i].key \in DOMAIN v.o
          THEN IF Schema(ns)[i].kind = "slice"
               THEN DecodeSatellites(v.o[Schema(ns)[i].key])
               ELSE DecodeScalar(Schema(ns)[i].kind, v.o[Schema(ns)[i].key])
          ELSE Zero]
  ELSE [i \in 1..Len(Schema(ns)) |-> [Zero EXCEPT !.err = (v.t # "null")]]

\* json.Unmarshal([]byte(line), &frame) for the frame struct whose one field
\* is the array under key ns: the elements, and whether Unmarshal returned
\* an error.
DecodeFrame(ns, doc) ==
  CASE doc[ns].t = "arr" ->
         [elems |-> [j \in 1..Len(doc[ns].a) |-> DecodeStruct(ns, doc[ns].a[j])],
          err |-> \E j \in 1..Len(doc[ns].a) : AnyErr(DecodeStruct(ns, doc[ns].a[j]))]
    [] doc[ns].t = "null" -> [elems |-> << >>, err |-> FALSE]
    [] OTHER -> [elems |-> << >>, err |-> TRUE]

\* The field with json tag tag of the struct rec of shape fields.
Field(fields, rec, tag) == rec[CHOOSE i \in 1..Len(fields) : fields[i].key = tag]

(***************************************************************************)
(* time.Parse(time.RFC3339Nano, s) and UnixNano() on the timestamps the    *)
(* lines below carry; every other string is one time.Parse rejects.        *)
(***************************************************************************)
ParseTime(str) ==
  CASE str = "1970-01-01T00:00:01.000Z" -> [ok |-> TRUE, nanos |-> 1000000000]
    [] str = "1970-01-01T00:00:01.500Z" -> [ok |-> TRUE, nanos |-> 1500000000]
    [] str = "1970-01-01T00:00:02.000Z" -> [ok |-> TRUE, nanos |-> 2000000000]
    [] OTHER -> [ok |-> FALSE, nanos |-> 0]

(***************************************************************************)
(* The registry as processLine sees it:                                    *)
(*   g        dynMetricGauges: name -> value of the gauge                  *)
(*   gv       dynMetricGaugeVecs: name -> (prn label -> value)             *)
(*   ver      metricVersion: version label -> value                        *)
(*   created  name -> how many promauto.New... calls were made for it      *)
(*   wasSet   the names of g on which Set was called                       *)
(*   log      what the call logged: "warn" (a narrow decode failed),       *)
(*            "unknown" (an unknown POLL key)                              *)
(*   st       "running"; "fatal" after log.Fatal (os.Exit); "panic" after  *)
(*            a runtime panic.  Nothing runs once st is not "running".     *)
(***************************************************************************)
FixedNames == {"gpsd_last_poll", "gpsd_version"}

Count(created, key) == IF key \in DOMAIN created THEN created[key] ELSE 0

\* promauto.NewGauge / promauto.NewGaugeVec: registers the collector with
\* the default registry, which panics on a name it already holds.
Registered(R, key) == key \in FixedNames \/ Count(R.created, key) > 0

Register(R, key) ==
  IF Registered(R, key)
  THEN [R EXCEPT !.st = "panic",
                 !.created = Put(R.created, key, Count(R.created, key) + 1)]
  ELSE [R EXCEPT !.created = Put(R.created, key, 1)]

EnsureGaugeAnew(R, key) == [Register(R, key) EXCEPT !.g = Put(R.g, key, 0)]

\* if _, exists := dynMetricGauges[key]; !exists { dynMetricGauges[key] = NewGauge }
EnsureGauge(R, key) ==
  IF key \in DOMAIN R.g
  THEN R
  ELSE IF Registered(R, key)
       THEN Register(R, key)
       ELSE [Register(R, key) EXCEPT !.g = Put(R.g, key, 0)]

SetGaugeAdds(R, key, v) ==
  [R EXCEPT !.g[key] = @ + v,
            !.wasSet = IF key \in R.wasSet THEN R.wasSet ELSE R.wasSet \cup {key}]

\* dynMetricGauges[key].Set(v)
SetGauge(R, key, v) ==
  [R EXCEPT !.g[key] = v,
            !.wasSet = IF key \in R.wasSet THEN R.wasSet ELSE R.wasSet \cup {key}]

\* if _, exists := dynMetricGaugeVecs[key]; !exists { ... NewGaugeVec }
EnsureGaugeVec(R, key) ==
  IF key \in DOMAIN R.gv
  THEN R
  ELSE IF Registered(R, key)
       THEN Register(R, key)
       ELSE [Register(R, key) EXCEPT !.gv = Put(R.gv, key, EmptyMap)]

SetGaugeVecAnyLabel(R, key, prn, v) ==
  [R EXCEPT !.gv[key] = [p \in (DOMAIN R.gv[key]) \cup {prn} |-> v]]

\* dynMetricGaugeVecs[key].With(map[string]string{"prn": prn}).Set(v)
SetGaugeVec(R, key, prn, v) ==
  IF prn \in DOMAIN R.gv[key]
  THEN [R EXCEPT !.gv[key][prn] = v]
  ELSE [R EXCEPT !.gv[key] = Put(R.gv[key], prn, v)]

BoolValue(b) == IF b THEN 1 ELSE 0

SatKey(tag) == "gpsd_sat_" \o tag

\* The update switch of updateSatellite, once the gauge vector exists.
UpdateSatField(R, key, kind, prnStr, val) ==
  IF R.st # "running"
  THEN R
  ELSE SetGaugeVec(R, key, prnStr, IF kind = "bool" THEN BoolValue(val.b) ELSE val.n)

\* One pass of updateSatellite's loop, for field i of sat.
SatelliteField(R, sat, i) ==
  IF SatKey(Satellite[i].key) = "gpsd_sat_PRN"
  THEN R
  ELSE IF Satellite[i].kind \notin {"bool", "float64"}
       THEN [R EXCEPT !.st = "fatal"]
       ELSE UpdateSatField(EnsureGaugeVec(R, SatKey(Satellite[i].key)),
                           SatKey(Satellite[i].key), Satellite[i].kind,
                           ToString(Field(Satellite, sat, "PRN").n), sat[i])

RECURSIVE SatelliteFrom(_, _, _)
SatelliteFrom(R, sat, i) ==
  IF i > Len(Satellite) \/ R.st # "running"
  THEN R
  ELSE SatelliteFrom(SatelliteField(R, sat, i), sat, i + 1)

updateSatellite(R, sat) == SatelliteFrom(R, sat, 1)

\* for j := 0; j < field.Len(); j++ { updateSatellite(&satellite) }
RECURSIVE SatellitesFrom(_, _, _)
SatellitesFrom(R, sats, j) ==
  IF j > Len(sats) \/ R.st # "running"
  THEN R
  ELSE SatellitesFrom(updateSatellite(R, sats[j]), sats, j + 1)

MetricKeyOfTag(namespace, tag) == "gpsd_" \o tag

MetricKey(namespace, tag) == "gpsd_" \o namespace \o "_" \o tag

\* The update switch of updateMetrics, once the gauge exists.
UpdateField(R, key, kind, val) ==
  CASE R.st # "running" -> R
    [] kind = "bool" -> SetGauge(R, key, BoolValue(val.b))
    [] kind = "float64" -> SetGauge(R, key, val.n)
    [] kind = "string" ->
         IF val.s = ""
         THEN R
         ELSE IF ParseTime(val.s).ok
              THEN SetGauge(R, key, ParseTime(val.s).nanos)
              ELSE [R EXCEPT !.st = "fatal"]
    [] OTHER -> R

\* One pass of updateMetrics's loop, for field i of the struct rec.
MetricsField(R, rec, namespace, i) ==
  IF Schema(namespace)[i].kind = "string" /\ Schema(namespace)[i].key # "time"
  THEN R
  ELSE CASE Schema(namespace)[i].kind \in {"bool", "float64", "string"} ->
              UpdateField(EnsureGauge(R, MetricKey(namespace, Schema(namespace)[i].key)),
                          MetricKey(namespace, Schema(namespace)[i].key),
                          Schema(namespace)[i].kind, rec[i])
         [] Schema(namespace)[i].kind = "slice" ->
              IF MetricKey(namespace, Schema(namespace)[i].key) # "gpsd_sky_satellites"
              THEN [R EXCEPT !.st = "fatal"]
              ELSE SatellitesFrom(R, rec[i].sats, 1)
         [] OTHER -> [R EXCEPT !.st = "fatal"]

RECURSIVE MetricsFrom(_, _, _, _)
MetricsFrom(R, rec, namespace, i) ==
  IF i > Len(Schema(namespace)) \/ R.st # "running"
  THEN R
  ELSE MetricsFrom(MetricsField(R, rec, namespace, i), rec, namespace, i + 1)

updateMetrics(R, rec, namespace) == MetricsFrom(R, rec, namespace, 1)

\* for _, tpv := range tpvFrame.TPV { updateMetrics(tpv, "tpv") }
RECURSIVE ElementsFrom(_, _, _, _)
ElementsFrom(R, elems, namespace, j) ==
  IF j > Len(elems) \/ R.st # "running"
  THEN R
  ELSE ElementsFrom(updateMetrics(R, elems[j], namespace), elems, namespace, j + 1)

\* if err := json.Unmarshal(...); err != nil { log.Warnf(...) }, and then the
\* range over the frame's elements.
ProjectFrame(R, frame, namespace) ==
  ElementsFrom(IF frame.err THEN [R EXCEPT !.log = R.log \cup {"warn"}] ELSE R,
               frame.elems, namespace, 1)

PollKeyUnknownIsFatal(R, doc, pollClass) ==
  CASE pollClass \in PollShapes ->
         ProjectFrame(R, DecodeFrame(pollClass, doc), pollClass)
    [] pollClass \in PollIgnored -> R
    [] OTHER -> [R EXCEPT !.st = "fatal"]

\* One case of the switch on pollClass.
PollKey(R, doc, pollClass) ==
  CASE pollClass \in PollShapes ->
         ProjectFrame(R, DecodeFrame(pollClass, doc), pollClass)
    [] pollClass \in PollIgnored -> R
    [] OTHER -> [R EXCEPT !.log = R.log \cup {"unknown"}]

PollKeysFromFirstOnly(R, doc, order, j) ==
  IF j > Len(order) \/ R.st # "running"
  THEN R
  ELSE PollKey(R, doc, order[j])

\* for pollClass := range m, the keys visited in the order of the sequence.
RECURSIVE PollKeysFrom(_, _, _, _)
PollKeysFrom(R, doc, order, j) ==
  IF j > Len(order) \/ R.st # "running"
  THEN R
  ELSE PollKeysFrom(PollKey(R, doc, order[j]), doc, order, j + 1)

\* The orders in which a range over a map with these keys may visit them.
Orders(keys) ==
  {q \in [1..Cardinality(keys) -> keys] :
     \A i, j \in 1..Cardinality(keys) : i # j => q[i] # q[j]}

VersionLabelBare(release) == "GPSD " \o release

VersionLabel(release) == "GPSD v" \o release

\* processLine(line), with the order in which a POLL line's keys are visited.
\* cl := m["class"] compared with the string c.
ClassIs(m, c) == "class" \in DOMAIN m /\ m["class"].t = "str" /\ m["class"].s = c

processLineDropsBadJson(R, line, order) ==
  IF Len(line.text) < MinLineLen
  THEN R
  ELSE IF ~line.valid
  THEN R
  ELSE IF line.doc.t # "obj"
  THEN [R EXCEPT !.st = "panic"]
  ELSE CASE ClassIs(line.doc.o, "VERSION") ->
              IF "release" \in DOMAIN line.doc.o /\ line.doc.o["release"].t = "str"
              THEN [R EXCEPT !.ver = Put(R.ver, VersionLabel(line.doc.o["release"].s), 1)]
              ELSE [R EXCEPT !.st = "panic"]
         [] ClassIs(line.doc.o, "POLL") -> PollKeysFrom(R, line.doc.o, order, 1)
         [] OTHER -> R

processLine(R, line, order) ==
  IF Len(line.text) < MinLineLen
  THEN R
  ELSE IF ~line.valid
  THEN [R EXCEPT !.st = "fatal"]
  ELSE IF line.doc.t # "obj"
  THEN [R EXCEPT !.st = "panic"]
  ELSE CASE ClassIs(line.doc.o, "VERSION") ->
              IF "release" \in DOMAIN line.doc.o /\ line.doc.o["release"].t = "str"
              THEN [R EXCEPT !.ver = Put(R.ver, VersionLabel(line.doc.o["release"].s), 1)]
              ELSE [R EXCEPT !.st = "panic"]
         [] ClassIs(line.doc.o, "POLL") -> PollKeysFrom(R, line.doc.o, order, 1)
         [] OTHER -> R

(***************************************************************************)
(* The lines the daemon sends: text is the line as scanner.Text() returns  *)
(* it, valid says whether json.Unmarshal accepts it, and doc is the value  *)
(* json.Unmarshal builds from it.                                          *)
(***************************************************************************)
Line(text, valid, doc) == [text |-> text, valid |-> valid, doc |-> doc]

\* an empty line
LineEmpty ==
  Line("",
       FALSE,
       JNull)

LineBraces ==
  Line("{}",
       TRUE,
       JObj(EmptyMap))

\* not JSON, and short
LineNoise ==
  Line("not json",
       FALSE,
       JNull)

\* exactly 16 characters
LinePollBare ==
  Line("{\"class\":\"POLL\"}",
       TRUE,
       JObj([class |-> JStr("POLL")]))

LineVersion325 ==
  Line("{\"class\":\"VERSION\",\"release\":\"3.25\",\"rev\":\"3.25\",\"proto_major\":3,\"proto_minor\":14}",
       TRUE,
       JObj([class |-> JStr("VERSION"), release |-> JStr("3.25"), rev |-> JStr("3.25"), proto_major
       |-> JNum(3), proto_minor |-> JNum(14)]))

LineVersion324 ==
  Line("{\"class\":\"VERSION\",\"release\":\"3.24\",\"rev\":\"3.24\",\"proto_major\":3,\"proto_minor\":14}",
       TRUE,
       JObj([class |-> JStr("VERSION"), release |-> JStr("3.24"), rev |-> JStr("3.24"), proto_major
       |-> JNum(3), proto_minor |-> JNum(14)]))

\* a POLL line whose only array is tpv, of one element, which has no time
LineTpvA ==
  Line("{\"class\":\"POLL\",\"active\":1,\"tpv\":[{\"class\":\"TPV\",\"device\":\"/dev/ttyS0\",\"mode\":3,\"lat\":46,\"lon\":7,\"altMSL\":500}]}",
       TRUE,
       JObj([class |-> JStr("POLL"), active |-> JNum(1), tpv |-> JArr(<< JObj([class |->
       JStr("TPV"), device |-> JStr("/dev/ttyS0"), mode |-> JNum(3), lat |-> JNum(46), lon |->
       JNum(7), altMSL |-> JNum(500)]) >>)]))

\* other values, and no lon
LineTpvB ==
  Line("{\"class\":\"POLL\",\"time\":\"1970-01-01T00:00:02.000Z\",\"tpv\":[{\"class\":\"TPV\",\"device\":\"/dev/ttyS0\",\"mode\":2,\"time\":\"1970-01-01T00:00:02.000Z\",\"lat\":47,\"altMSL\":510}]}",
       TRUE,
       JObj([class |-> JStr("POLL"), time |-> JStr("1970-01-01T00:00:02.000Z"), tpv |-> JArr(<<
       JObj([class |-> JStr("TPV"), device |-> JStr("/dev/ttyS0"), mode |-> JNum(2), time |->
       JStr("1970-01-01T00:00:02.000Z"), lat |-> JNum(47), altMSL |-> JNum(510)]) >>)]))

\* no fix yet: the time is the empty string
LineTpvNoFix ==
  Line("{\"class\":\"POLL\",\"tpv\":[{\"class\":\"TPV\",\"device\":\"/dev/ttyS0\",\"mode\":1,\"time\":\"\"}]}",
       TRUE,
       JObj([class |-> JStr("POLL"), tpv |-> JArr(<< JObj([class |-> JStr("TPV"), device |->
       JStr("/dev/ttyS0"), mode |-> JNum(1), time |-> JStr("")]) >>)]))

\* two elements in one array
LineTpvTwo ==
  Line("{\"class\":\"POLL\",\"tpv\":[{\"class\":\"TPV\",\"mode\":3,\"lat\":48,\"lon\":8},{\"class\":\"TPV\",\"mode\":2,\"lat\":49,\"lon\":9,\"time\":\"1970-01-01T00:00:01.000Z\"}]}",
       TRUE,
       JObj([class |-> JStr("POLL"), tpv |-> JArr(<< JObj([class |-> JStr("TPV"), mode |-> JNum(3),
       lat |-> JNum(48), lon |-> JNum(8)]), JObj([class |-> JStr("TPV"), mode |-> JNum(2), lat |->
       JNum(49), lon |-> JNum(9), time |-> JStr("1970-01-01T00:00:01.000Z")]) >>)]))

\* satellites 5 and 12
LineSky ==
  Line("{\"class\":\"POLL\",\"sky\":[{\"class\":\"SKY\",\"device\":\"/dev/ttyS0\",\"nSat\":2,\"uSat\":1,\"hdop\":2,\"satellites\":[{\"PRN\":5,\"az\":100,\"el\":40,\"ss\":30,\"used\":true},{\"PRN\":12,\"az\":200,\"el\":10,\"ss\":20,\"used\":false}]}]}",
       TRUE,
       JObj([class |-> JStr("POLL"), sky |-> JArr(<< JObj([class |-> JStr("SKY"), device |->
       JStr("/dev/ttyS0"), nSat |-> JNum(2), uSat |-> JNum(1), hdop |-> JNum(2), satellites |->
       JArr(<< JObj([PRN |-> JNum(5), az |-> JNum(100), el |-> JNum(40), ss |-> JNum(30), used |->
       JBool(TRUE)]), JObj([PRN |-> JNum(12), az |-> JNum(200), el |-> JNum(10), ss |-> JNum(20),
       used |-> JBool(FALSE)]) >>)]) >>)]))

\* satellite 5 alone, with other values
LineSky5 ==
  Line("{\"class\":\"POLL\",\"sky\":[{\"class\":\"SKY\",\"device\":\"/dev/ttyS0\",\"nSat\":1,\"uSat\":0,\"hdop\":3,\"satellites\":[{\"PRN\":5,\"az\":101,\"el\":41,\"ss\":31,\"used\":false}]}]}",
       TRUE,
       JObj([class |-> JStr("POLL"), sky |-> JArr(<< JObj([class |-> JStr("SKY"), device |->
       JStr("/dev/ttyS0"), nSat |-> JNum(1), uSat |-> JNum(0), hdop |-> JNum(3), satellites |->
       JArr(<< JObj([PRN |-> JNum(5), az |-> JNum(101), el |-> JNum(41), ss |-> JNum(31), used |->
       JBool(FALSE)]) >>)]) >>)]))

LinePpsToff ==
  Line("{\"class\":\"POLL\",\"pps\":[{\"class\":\"PPS\",\"real_sec\":10,\"clock_sec\":10,\"clock_nsec\":125,\"precision\":-20,\"shm\":\"NTP0\"}],\"toff\":[{\"class\":\"TOFF\",\"real_sec\":11,\"clock_sec\":11,\"clock_nsec\":250}]}",
       TRUE,
       JObj([class |-> JStr("POLL"), pps |-> JArr(<< JObj([class |-> JStr("PPS"), real_sec |->
       JNum(10), clock_sec |-> JNum(10), clock_nsec |-> JNum(125), precision |-> JNum(-20), shm |->
       JStr("NTP0")]) >>), toff |-> JArr(<< JObj([class |-> JStr("TOFF"), real_sec |-> JNum(11),
       clock_sec |-> JNum(11), clock_nsec |-> JNum(250)]) >>)]))

\* a POLL key processLine does not know
LineUnknownKey ==
  Line("{\"class\":\"POLL\",\"rtk\":[{\"class\":\"RTK\"}],\"gst\":[{\"class\":\"GST\",\"rms\":2,\"major\":3,\"lat\":4}],\"osc\":[{\"class\":\"OSC\",\"running\":true,\"reference\":true,\"disciplined\":false,\"delta\":5}]}",
       TRUE,
       JObj([class |-> JStr("POLL"), rtk |-> JArr(<< JObj([class |-> JStr("RTK")]) >>), gst |->
       JArr(<< JObj([class |-> JStr("GST"), rms |-> JNum(2), major |-> JNum(3), lat |-> JNum(4)])
       >>), osc |-> JArr(<< JObj([class |-> JStr("OSC"), running |-> JBool(TRUE), reference |->
       JBool(TRUE), disciplined |-> JBool(FALSE), delta |-> JNum(5)]) >>)]))

\* a time that time.Parse rejects
LineTpvBadTime ==
  Line("{\"class\":\"POLL\",\"tpv\":[{\"class\":\"TPV\",\"mode\":3,\"time\":\"yesterday\",\"lat\":50}]}",
       TRUE,
       JObj([class |-> JStr("POLL"), tpv |-> JArr(<< JObj([class |-> JStr("TPV"), mode |-> JNum(3),
       time |-> JStr("yesterday"), lat |-> JNum(50)]) >>)]))

\* not JSON, and long
LineGarbage ==
  Line("this is not json at all",
       FALSE,
       JNull)

\* mode is a string, and there is no time
LineTpvMistyped ==
  Line("{\"class\":\"POLL\",\"tpv\":[{\"class\":\"TPV\",\"mode\":\"3D\",\"lat\":51}]}",
       TRUE,
       JObj([class |-> JStr("POLL"), tpv |-> JArr(<< JObj([class |-> JStr("TPV"), mode |->
       JStr("3D"), lat |-> JNum(51)]) >>)]))

\* a TPV report outside a POLL response
LineWatchTpv ==
  Line("{\"class\":\"TPV\",\"device\":\"/dev/ttyS0\",\"mode\":3,\"lat\":52,\"lon\":10}",
       TRUE,
       JObj([class |-> JStr("TPV"), device |-> JStr("/dev/ttyS0"), mode |-> JNum(3), lat |->
       JNum(52), lon |-> JNum(10)]))

\* JSON, but no object
LineArray ==
  Line("[1,2,3,4,5,6,7,8]",
       TRUE,
       JArr(<< JNum(1), JNum(2), JNum(3), JNum(4), JNum(5), JNum(6), JNum(7), JNum(8) >>))

\* a VERSION line without release
LineVersionBare ==
  Line("{\"class\":\"VERSION\",\"rev\":\"3.25\"}",
       TRUE,
       JObj([class |-> JStr("VERSION"), rev |-> JStr("3.25")]))

\* a time that time.Parse rejects, next to another shape
LineBadTimeToff ==
  Line("{\"class\":\"POLL\",\"tpv\":[{\"class\":\"TPV\",\"mode\":3,\"time\":\"yesterday\"}],\"toff\":[{\"class\":\"TOFF\",\"real_sec\":12,\"clock_sec\":12,\"clock_nsec\":300}]}",
       TRUE,
       JObj([class |-> JStr("POLL"), tpv |-> JArr(<< JObj([class |-> JStr("TPV"), mode |-> JNum(3),
       time |-> JStr("yesterday")]) >>), toff |-> JArr(<< JObj([class |-> JStr("TOFF"), real_sec |->
       JNum(12), clock_sec |-> JNum(12), clock_nsec |-> JNum(300)]) >>)]))

Lines ==
  << LineEmpty,
     LineBraces,
     LineNoise,
     LinePollBare,
     LineVersion325,
     LineVersion324,
     LineTpvA,
     LineTpvB,
     LineTpvNoFix,
     LineTpvTwo,
     LineSky,
     LineSky5,
     LinePpsToff,
     LineUnknownKey,
     LineTpvBadTime,
     LineGarbage,
     LineTpvMistyped,
     LineWatchTpv,
     LineArray,
     LineVersionBare,
     LineBadTimeToff >>

\* The keys of the map a POLL line decodes to (no keys for any other line:
\* processLine ranges over the map of a POLL line only).
PollKeys(line) ==
  IF line.valid /\ line.doc.t = "obj" /\ ClassIs(line.doc.o, "POLL")
  THEN DOMAIN line.doc.o
  ELSE {}

\* The lines the daemon sends while both goroutines are followed.
SupervisorLines == {2, 5, 9, 16}

AllLines == 1..Len(Lines)

(***************************************************************************)
(* The state of the process.                                               *)
(*   conn         the shared net.Conn of main: Nil, or a connection        *)
(*   scanner      the shared *bufio.Scanner: whether it was made, the      *)
(*                connection its reader reads, whether Scan returned false *)
(*   pcReader     where the reader goroutine stands                        *)
(*   pcPoll       where the poll ticker goroutine stands                   *)
(*   dials        connections dialed so far; they are numbered 1, 2, ...   *)
(*   open         the connections dialed and not closed                    *)
(*   broken       the connections the peer or the network has ended        *)
(*   ticks        ticks of pollTicker received so far, the clock           *)
(*   writes       every conn.Write called: who, on which connection, what, *)
(*                at which tick of the clock, and whether the call is      *)
(*                still in progress ("pending"), returned nil ("ok") or    *)
(*                returned an error ("failed")                             *)
(*   line         the line scanner.Text() returned last, as its number in  *)
(*                Lines (0: none yet)                                      *)
(*   status, dynMetricGauges, dynMetricGaugeVecs, metricVersion, created,  *)
(*   wasSet, logged: the registry, as described above                      *)
(*   metricLastPoll  the gauge gpsd_last_poll                              *)
(***************************************************************************)
VARIABLES conn, scanner, pcReader, pcPoll, dials, open, broken, ticks, writes,
          line, status, dynMetricGauges, dynMetricGaugeVecs, metricVersion,
          metricLastPoll, created, wasSet, logged

connVars == << conn, scanner, pcReader, pcPoll, dials, open, broken, ticks, writes >>

regVars == << dynMetricGauges, dynMetricGaugeVecs, metricVersion, created,
              wasSet, logged >>

vars == << connVars, regVars, line, status, metricLastPoll >>

Reg ==
  [g |-> dynMetricGauges, gv |-> dynMetricGaugeVecs, ver |-> metricVersion,
   created |-> created, wasSet |-> wasSet, log |-> logged, st |-> status]

NoScanner == [made |-> FALSE, src |-> Nil, done |-> FALSE]

Init ==
  /\ conn = Nil
  /\ scanner = NoScanner
  /\ pcReader = "check"
  /\ pcPoll = "wait"
  /\ dials = 0
  /\ open = {}
  /\ broken = {}
  /\ ticks = 0
  /\ writes = {}
  /\ line = 0
  /\ status = "running"
  /\ dynMetricGauges = EmptyMap
  /\ dynMetricGaugeVecs = EmptyMap
  /\ metricVersion = EmptyMap
  /\ metricLastPoll = 0
  /\ created = EmptyMap
  /\ wasSet = {}
  /\ logged = {}

Running == status = "running"

\* conn.Write on connection c: it fails on a connection this process closed,
\* it succeeds on a live one, and on one the peer has ended it may do either.
WriteResults(c) ==
  IF c \notin open THEN {FALSE}
  ELSE IF c \in broken THEN {TRUE, FALSE}
  ELSE {TRUE}

Written(who, c, data, at, res) ==
  [by |-> who, conn |-> c, data |-> data, at |-> at, res |-> res]

\* The call of conn.Write that goroutine who is in.
Pending(who) == {w \in writes : w.by = who /\ w.res = "pending"}

\* The call w returns: nil if ok, an error if not.
Returned(w, ok) == [w EXCEPT !.res = IF ok THEN "ok" ELSE "failed"]

---------------------------------------------------------------------------
\* The reader goroutine.

ReaderCheckAlwaysDials ==
  /\ Running /\ pcReader = "check"
  /\ pcReader' = "dial"
  /\ UNCHANGED << conn, scanner, pcPoll, dials, open, broken, ticks, writes,
                  regVars, line, status, metricLastPoll >>

\* if conn == nil
ReaderCheck ==
  /\ Running /\ pcReader = "check"
  /\ pcReader' = IF conn = Nil THEN "dial" ELSE "scan"
  /\ UNCHANGED << conn, scanner, pcPoll, dials, open, broken, ticks, writes,
                  regVars, line, status, metricLastPoll >>

\* conn, err = net.Dial(...), which succeeds
ReaderDial ==
  /\ Running /\ pcReader = "dial"
  /\ dials < MaxDials
  /\ dials' = dials + 1
  /\ conn' = dials + 1
  /\ open' = open \cup {dials + 1}
  /\ pcReader' = "write"
  /\ UNCHANGED << scanner, pcPoll, broken, ticks, writes, regVars, line,
                  status, metricLastPoll >>

ReaderDialFailsAndRetries ==
  /\ Running /\ pcReader = "dial"
  /\ conn' = Nil
  /\ pcReader' = "check"
  /\ UNCHANGED << scanner, pcPoll, dials, open, broken, ticks, writes, regVars,
                  line, status, metricLastPoll >>

\* conn, err = net.Dial(...), which fails: log.Fatal(err)
ReaderDialFails ==
  /\ Running /\ pcReader = "dial"
  /\ conn' = Nil
  /\ status' = "fatal"
  /\ UNCHANGED << scanner, pcReader, pcPoll, dials, open, broken, ticks,
                  writes, regVars, line, metricLastPoll >>

\* conn.Write(...) of the reader is called; a nil conn is a nil pointer
\* dereference
ReaderWrite ==
  /\ Running /\ pcReader = "write"
  /\ IF conn = Nil
     THEN /\ status' = "panic"
          /\ UNCHANGED << pcReader, writes >>
     ELSE /\ pcReader' = "writing"
          /\ writes' = writes \cup {Written("reader", conn, ReaderCommand, ticks, "pending")}
          /\ UNCHANGED status
  /\ UNCHANGED << conn, scanner, pcPoll, dials, open, broken, ticks, regVars,
                  line, metricLastPoll >>

\* conn.Write(...) of the reader returns; if _, err := ...; err != nil
ReaderWriteReturns ==
  /\ Running /\ pcReader = "writing"
  /\ \E w \in Pending("reader") :
       \E ok \in WriteResults(w.conn) :
          /\ writes' = (writes \ {w}) \cup {Returned(w, ok)}
          /\ pcReader' = IF ok THEN "newscanner" ELSE "close"
  /\ UNCHANGED << conn, scanner, pcPoll, dials, open, broken, ticks, regVars,
                  line, status, metricLastPoll >>

\* _ = conn.Close() of the reader
ReaderClose ==
  /\ Running /\ pcReader = "close"
  /\ IF conn = Nil
     THEN /\ status' = "panic"
          /\ UNCHANGED << pcReader, open >>
     ELSE /\ open' = open \ {conn}
          /\ pcReader' = "setnil"
          /\ UNCHANGED status
  /\ UNCHANGED << conn, scanner, pcPoll, dials, broken, ticks, writes, regVars,
                  line, metricLastPoll >>

\* conn = nil of the reader
ReaderSetNil ==
  /\ Running /\ pcReader = "setnil"
  /\ conn' = Nil
  /\ pcReader' = "newscanner"
  /\ UNCHANGED << scanner, pcPoll, dials, open, broken, ticks, writes, regVars,
                  line, status, metricLastPoll >>

\* rdr := bufio.NewReader(conn); scanner = bufio.NewScanner(rdr)
ReaderNewScanner ==
  /\ Running /\ pcReader = "newscanner"
  /\ scanner' = [made |-> TRUE, src |-> conn, done |-> FALSE]
  /\ pcReader' = "scan"
  /\ UNCHANGED << conn, pcPoll, dials, open, broken, ticks, writes, regVars,
                  line, status, metricLastPoll >>

\* scanner.Scan() returns true, with one of the lines numbered in I
ScanLine(I) ==
  /\ Running /\ pcReader = "scan"
  /\ scanner.made /\ ~scanner.done
  /\ scanner.src \in open \ broken
  /\ \E i \in I : line' = i
  /\ pcReader' = "process"
  /\ UNCHANGED << conn, scanner, pcPoll, dials, open, broken, ticks, writes,
                  regVars, status, metricLastPoll >>

ReaderScanLine == ScanLine(SupervisorLines)

\* processLine(scanner.Text()), from its call to its return or to the end of
\* the process
ReaderProcessLine ==
  /\ Running /\ pcReader = "process"
  /\ \E order \in Orders(PollKeys(Lines[line])) :
       \E R \in {processLine([Reg EXCEPT !.log = {}], Lines[line], order)} :
          /\ status' = R.st
          /\ dynMetricGauges' = R.g
          /\ dynMetricGaugeVecs' = R.gv
          /\ metricVersion' = R.ver
          /\ created' = R.created
          /\ wasSet' = R.wasSet
          /\ logged' = R.log
          /\ line' = line
          /\ pcReader' = IF R.st = "running" THEN "scan" ELSE "process"
  /\ UNCHANGED << conn, scanner, pcPoll, dials, open, broken, ticks, writes,
                  metricLastPoll >>

\* scanner.Scan() returns false: the read failed or the stream ended, or the
\* scanner had stopped before.  The for loop ends and the outer loop goes on.
ReaderScanEnds ==
  /\ Running /\ pcReader = "scan"
  /\ scanner.made /\ scanner.src # Nil
  /\ scanner.done \/ scanner.src \notin open \/ scanner.src \in broken
  /\ scanner' = [scanner EXCEPT !.done = TRUE]
  /\ pcReader' = "check"
  /\ UNCHANGED << conn, pcPoll, dials, open, broken, ticks, writes, regVars,
                  line, status, metricLastPoll >>

\* scanner.Scan() with no scanner, or with one that reads a nil conn: a nil
\* pointer dereference
ReaderScanPanics ==
  /\ Running /\ pcReader = "scan"
  /\ ~scanner.made \/ (scanner.src = Nil /\ ~scanner.done)
  /\ status' = "panic"
  /\ UNCHANGED << connVars, regVars, line, metricLastPoll >>

---------------------------------------------------------------------------
\* The poll ticker goroutine.

\* for range pollTicker.C { if conn != nil
PollTick ==
  /\ Running /\ pcPoll = "wait"
  /\ ticks < MaxTicks
  /\ ticks' = ticks + 1
  /\ pcPoll' = IF conn # Nil THEN "write" ELSE "wait"
  /\ UNCHANGED << conn, scanner, pcReader, dials, open, broken, writes,
                  regVars, line, status, metricLastPoll >>

\* conn.Write(...) of the poll ticker is called
PollWrite ==
  /\ Running /\ pcPoll = "write"
  /\ IF conn = Nil
     THEN /\ status' = "panic"
          /\ UNCHANGED << pcPoll, writes >>
     ELSE /\ pcPoll' = "writing"
          /\ writes' = writes \cup {Written("poll", conn, PollTickCommand, ticks, "pending")}
          /\ UNCHANGED status
  /\ UNCHANGED << conn, scanner, pcReader, dials, open, broken, ticks, regVars,
                  line, metricLastPoll >>

\* conn.Write(...) of the poll ticker returns; if _, err := ...; err != nil
PollWriteReturns ==
  /\ Running /\ pcPoll = "writing"
  /\ \E w \in Pending("poll") :
       \E ok \in WriteResults(w.conn) :
          /\ writes' = (writes \ {w}) \cup {Returned(w, ok)}
          /\ pcPoll' = IF ok THEN "lastpoll" ELSE "close"
  /\ UNCHANGED << conn, scanner, pcReader, dials, open, broken, ticks, regVars,
                  line, status, metricLastPoll >>

\* _ = conn.Close() of the poll ticker
PollClose ==
  /\ Running /\ pcPoll = "close"
  /\ IF conn = Nil
     THEN /\ status' = "panic"
          /\ UNCHANGED << pcPoll, open >>
     ELSE /\ open' = open \ {conn}
          /\ pcPoll' = "setnil"
          /\ UNCHANGED status
  /\ UNCHANGED << conn, scanner, pcReader, dials, broken, ticks, writes,
                  regVars, line, metricLastPoll >>

\* conn = nil of the poll ticker
PollSetNil ==
  /\ Running /\ pcPoll = "setnil"
  /\ conn' = Nil
  /\ pcPoll' = "lastpoll"
  /\ UNCHANGED << scanner, pcReader, dials, open, broken, ticks, writes,
                  regVars, line, status, metricLastPoll >>

\* metricLastPoll.SetToCurrentTime()
PollLastPoll ==
  /\ Running /\ pcPoll = "lastpoll"
  /\ metricLastPoll' = ticks
  /\ pcPoll' = "wait"
  /\ UNCHANGED << conn, scanner, pcReader, dials, open, broken, ticks, writes,
                  regVars, line, status >>

---------------------------------------------------------------------------
\* The peer closes connection c, or the network drops it.
PeerEnds ==
  /\ Running
  /\ \E c \in open \ broken : broken' = broken \cup {c}
  /\ UNCHANGED << conn, scanner, pcReader, pcPoll, dials, open, ticks, writes,
                  regVars, line, status, metricLastPoll >>

Next ==
  \/ ReaderCheck \/ ReaderDial \/ ReaderDialFails \/ ReaderWrite
  \/ ReaderWriteReturns
  \/ ReaderClose \/ ReaderSetNil \/ ReaderNewScanner
  \/ ReaderScanLine \/ ReaderProcessLine \/ ReaderScanEnds \/ ReaderScanPanics
  \/ PollTick \/ PollWrite \/ PollWriteReturns \/ PollClose \/ PollSetNil \/ PollLastPoll
  \/ PeerEnds

Spec == Init /\ [][Next]_vars

(***************************************************************************)
(* The dispatcher and the projector alone: the reader has connected and    *)
(* stands in its scan loop, and the daemon sends any of the lines.         *)
(***************************************************************************)
InitLines ==
  /\ conn = 1
  /\ scanner = [made |-> TRUE, src |-> 1, done |-> FALSE]
  /\ pcReader = "scan"
  /\ pcPoll = "wait"
  /\ dials = 1
  /\ open = {1}
  /\ broken = {}
  /\ ticks = 0
  /\ writes = {Written("reader", 1, ReaderCommand, 0, "ok")}
  /\ line = 0
  /\ status = "running"
  /\ dynMetricGauges = EmptyMap
  /\ dynMetricGaugeVecs = EmptyMap
  /\ metricVersion = EmptyMap
  /\ metricLastPoll = 0
  /\ created = EmptyMap
  /\ wasSet = {}
  /\ logged = {}

ReaderScanAnyLine == ScanLine(AllLines)

NextLines == ReaderScanAnyLine \/ ReaderProcessLine

SpecLines == InitLines /\ [][NextLines]_vars

---------------------------------------------------------------------------
(***************************************************************************)
(* C1: at most one connection is open at any time, under every             *)
(* interleaving of the two goroutines: every open connection is the one    *)
(* conn holds, the reader stands before net.Dial only while conn is nil,   *)
(* and a step that changes a non-nil conn sets it to nil, after the        *)
(* connection it held was closed.                                          *)
(***************************************************************************)
OneConnection ==
  /\ Cardinality(open) <= 1
  /\ \A c \in open : conn = c
  /\ pcReader = "dial" => conn = Nil

HandleReleased ==
  (conn # Nil /\ conn' # conn) => (conn' = Nil /\ conn \notin open)

C1_AtMostOneConnection == []OneConnection /\ [][HandleReleased]_vars

\* A second connection is open after the first was closed and its handle
\* set to nil.
C1_Witness == dials = 2 /\ open = {2} /\ conn = 2 /\ Running

(***************************************************************************)
(* C2: every conn.Write, the reader's after a dial and the poll ticker's   *)
(* on a tick, is handed exactly the bytes ?WATCH={"enable": true}\n?POLL;\n *)
(* and nothing else is ever written.                                       *)
(***************************************************************************)
C2_WritesAreTheCommand ==
  \A w \in writes : w.data = "?WATCH={\"enable\": true}\n?POLL;\n"

\* The write on the first connect and the write on the first tick were made,
\* on the same connection.
C2_Witness ==
  /\ ticks = 1
  /\ \E w1, w2 \in writes : w1.by = "reader" /\ w2.by = "poll" /\ w1.conn = 1
                            /\ w2.conn = 1

---------------------------------------------------------------------------
\* What the claims about processLine are stated with.

\* The step in which processLine returns to the reader's loop.
ProcessReturns == pcReader = "process" /\ pcReader' = "scan"

\* The step in which processLine runs, whether it returns or ends the process.
ProcessRuns == pcReader = "process" /\ (pcReader' = "scan" \/ status' # "running")

\* Line l is a POLL line with a non-empty array under the shape key ns.
Carries(l, ns) ==
  /\ ns \in PollKeys(Lines[l])
  /\ Lines[l].doc.o[ns].t = "arr"
  /\ Len(Lines[l].doc.o[ns].a) > 0

\* The last element of that array, decoded.
LastElement(l, ns) ==
  DecodeStruct(ns, Lines[l].doc.o[ns].a[Len(Lines[l].doc.o[ns].a)])

\* The number a gauge shows for a boolean or number field.
Shown(kind, val) == IF kind = "bool" THEN (IF val.b THEN 1 ELSE 0) ELSE val.n

ScalarName(ns, tag) == "gpsd_" \o ns \o "_" \o tag

SatName(tag) == "gpsd_sat_" \o tag

\* The names of the gauges of shape ns.
NamesOf(ns) == {ScalarName(ns, Schema(ns)[i].key) : i \in 1..Len(Schema(ns))}

(***************************************************************************)
(* C3: when processLine returns, every gauge of a boolean or number field  *)
(* of a shape the line carries shows the value of that field in the last   *)
(* element of the line's array (true as 1, false as 0), and every gauge of *)
(* a shape the line does not carry shows what it showed before; no other   *)
(* step changes a gauge.  So after any sequence of lines a gauge shows the *)
(* field of the most recently projected record of its shape.               *)
(***************************************************************************)
LatestValueShown ==
  IF ProcessReturns
  THEN /\ \A ns \in PollShapes :
            Carries(line, ns) =>
              \A rec \in {LastElement(line, ns)} :
                \A i \in 1..Len(Schema(ns)) :
                  Schema(ns)[i].kind \in {"bool", "float64"} =>
                    /\ ScalarName(ns, Schema(ns)[i].key) \in DOMAIN dynMetricGauges'
                    /\ dynMetricGauges'[ScalarName(ns, Schema(ns)[i].key)]
                         = Shown(Schema(ns)[i].kind, rec[i])
       /\ \A touched \in {UNION {NamesOf(ns) : ns \in {x \in PollShapes : Carries(line, x)}}} :
            \A name \in (DOMAIN dynMetricGauges) \ touched :
              dynMetricGauges'[name] = dynMetricGauges[name]
  ELSE status' = "running" => dynMetricGauges' = dynMetricGauges

C3_GaugeShowsLatestValue == [][LatestValueShown]_vars

\* Both elements of LineTpvTwo were projected, the second over the first; the
\* osc gauges show booleans as 1 and 0.
C3_Witness ==
  /\ Running
  /\ "gpsd_tpv_lat" \in DOMAIN dynMetricGauges
  /\ dynMetricGauges["gpsd_tpv_lat"] = 49
  /\ dynMetricGauges["gpsd_tpv_lon"] = 9
  /\ "gpsd_osc_running" \in DOMAIN dynMetricGauges
  /\ dynMetricGauges["gpsd_osc_running"] = 1
  /\ dynMetricGauges["gpsd_osc_disciplined"] = 0

(***************************************************************************)
(* C4: when processLine returns from a line that carries sky records, a    *)
(* sample of a gauge vector whose prn label is not the identifier of a     *)
(* satellite of the line existed before and shows what it showed before,   *)
(* and for every satellite of the line every other field's sample labeled  *)
(* with its identifier shows that field's value.  No entry is ever named   *)
(* gpsd_sat_PRN.                                                           *)
(***************************************************************************)
RECURSIVE Concat(_)
Concat(ss) == IF Len(ss) = 0 THEN << >> ELSE Head(ss) \o Concat(Tail(ss))

\* The satellites of the sky records of line l, decoded, in the order of the
\* line.
SatellitesOf(l) ==
  IF Carries(l, "sky")
  THEN Concat([e \in 1..Len(Lines[l].doc.o["sky"].a) |->
                 Field(SKY, DecodeStruct("sky", Lines[l].doc.o["sky"].a[e]),
                       "satellites").sats])
  ELSE << >>

PrnOf(sat) == ToString(Field(Satellite, sat, "PRN").n)

SatelliteFrame ==
  IF ProcessReturns
  THEN \A sats \in {SatellitesOf(line)} :
         /\ \A prns \in {{PrnOf(sats[j]) : j \in 1..Len(sats)}} :
              \A name \in DOMAIN dynMetricGaugeVecs' :
                \A p \in (DOMAIN dynMetricGaugeVecs'[name]) \ prns :
                  /\ name \in DOMAIN dynMetricGaugeVecs
                  /\ p \in DOMAIN dynMetricGaugeVecs[name]
                  /\ dynMetricGaugeVecs'[name][p] = dynMetricGaugeVecs[name][p]
         /\ \A j \in 1..Len(sats) :
              (\A k \in (j + 1)..Len(sats) : PrnOf(sats[k]) # PrnOf(sats[j])) =>
                \A i \in 1..Len(Satellite) :
                  Satellite[i].key # "PRN" =>
                    /\ SatName(Satellite[i].key) \in DOMAIN dynMetricGaugeVecs'
                    /\ PrnOf(sats[j]) \in DOMAIN dynMetricGaugeVecs'[SatName(Satellite[i].key)]
                    /\ dynMetricGaugeVecs'[SatName(Satellite[i].key)][PrnOf(sats[j])]
                         = Shown(Satellite[i].kind, sats[j][i])
  ELSE status' = "running" => dynMetricGaugeVecs' = dynMetricGaugeVecs

NoPrnMetric ==
  "gpsd_sat_PRN" \notin (DOMAIN dynMetricGaugeVecs) \cup (DOMAIN dynMetricGauges)

C4_SatelliteSamplesIndependent == []NoPrnMetric /\ [][SatelliteFrame]_vars

\* LineSky set the samples of satellites 5 and 12, and then LineSky5 those of
\* satellite 5 alone.
C4_Witness ==
  /\ Running
  /\ "gpsd_sat_el" \in DOMAIN dynMetricGaugeVecs
  /\ DOMAIN dynMetricGaugeVecs["gpsd_sat_el"] = {"5", "12"}
  /\ dynMetricGaugeVecs["gpsd_sat_el"]["5"] = 41
  /\ dynMetricGaugeVecs["gpsd_sat_el"]["12"] = 10
  /\ dynMetricGaugeVecs["gpsd_sat_used"]["5"] = 0
  /\ dynMetricGaugeVecs["gpsd_sat_used"]["12"] = 0

(***************************************************************************)
(* C5: when processLine runs on a line in which every record of a shape    *)
(* has the empty string as its time, the gauge gpsd_<shape>_time exists    *)
(* afterwards only if it existed before, and then shows what it showed     *)
(* before; and when that is so of every shape of the line that has a time, *)
(* the process goes on running.                                            *)
(***************************************************************************)
HasTime(ns) == \E i \in 1..Len(Schema(ns)) : Schema(ns)[i].key = "time"

\* Line l carries records of shape ns, and the time of each is "".
TimesEmpty(l, ns) ==
  /\ Carries(l, ns)
  /\ HasTime(ns)
  /\ \A e \in 1..Len(Lines[l].doc.o[ns].a) :
       Field(Schema(ns), DecodeStruct(ns, Lines[l].doc.o[ns].a[e]), "time").s = ""

EmptyTimeIsNoOp ==
  ProcessRuns =>
    /\ \A ns \in PollShapes :
         TimesEmpty(line, ns) =>
           /\ ScalarName(ns, "time") \in DOMAIN dynMetricGauges'
                <=> ScalarName(ns, "time") \in DOMAIN dynMetricGauges
           /\ ScalarName(ns, "time") \in DOMAIN dynMetricGauges =>
                dynMetricGauges'[ScalarName(ns, "time")]
                  = dynMetricGauges[ScalarName(ns, "time")]
    /\ (/\ \E ns \in PollShapes : TimesEmpty(line, ns)
        /\ \A ns \in PollShapes :
             Carries(line, ns) /\ HasTime(ns) => TimesEmpty(line, ns))
         => status' = "running"

C5_EmptyTimeIsNoOp == [][EmptyTimeIsNoOp]_vars

(***************************************************************************)
(* C6: when processLine runs on a VERSION line whose release is the string *)
(* r, it returns, the sample of gpsd_version labeled "GPSD v" followed by  *)
(* r is 1 afterwards, every other sample of gpsd_version is there as it    *)
(* was, no sample but that one is new, and the gauges, the gauge vectors   *)
(* and the registrations are what they were.                               *)
(***************************************************************************)
IsVersionLine(l) ==
  /\ Lines[l].valid
  /\ Len(Lines[l].text) >= 16
  /\ Lines[l].doc.t = "obj"
  /\ "class" \in DOMAIN Lines[l].doc.o
  /\ Lines[l].doc.o["class"] = JStr("VERSION")
  /\ "release" \in DOMAIN Lines[l].doc.o
  /\ Lines[l].doc.o["release"].t = "str"

VersionSetsOneLabel ==
  ProcessRuns /\ IsVersionLine(line) =>
    \A label \in {"GPSD v" \o Lines[line].doc.o["release"].s} :
      /\ status' = "running"
      /\ DOMAIN metricVersion' = (DOMAIN metricVersion) \cup {label}
      /\ metricVersion'[label] = 1
      /\ \A other \in (DOMAIN metricVersion) \ {label} :
           metricVersion'[other] = metricVersion[other]
      /\ dynMetricGauges' = dynMetricGauges
      /\ dynMetricGaugeVecs' = dynMetricGaugeVecs
      /\ created' = created

C6_VersionSetsOneLabel == [][VersionSetsOneLabel]_vars

\* Both VERSION lines were processed, 3.25 first, with gauges in the registry.
C6_Witness ==
  /\ Running
  /\ pcReader = "scan"
  /\ line = 6
  /\ DOMAIN metricVersion = {"GPSD v3.25", "GPSD v3.24"}
  /\ metricVersion["GPSD v3.25"] = 1
  /\ metricVersion["GPSD v3.24"] = 1
  /\ "gpsd_tpv_lat" \in DOMAIN dynMetricGauges
  /\ "gpsd_sat_el" \in DOMAIN dynMetricGaugeVecs

(***************************************************************************)
(* C7: when processLine returns from a POLL line whose only shape key is   *)
(* tpv, with an array of one element, then afterwards every gauge          *)
(* gpsd_tpv_<key> of a boolean or number field exists and shows the        *)
(* element's value, the gauges that are new or changed are among those and *)
(* gpsd_tpv_time, gpsd_tpv_time is new or changed only if the element has  *)
(* a time, and no gauge vector is new or changed.                          *)
(***************************************************************************)
OnlyOneTpv(l) ==
  /\ PollKeys(Lines[l]) \cap PollShapes = {"tpv"}
  /\ Carries(l, "tpv")
  /\ Len(Lines[l].doc.o["tpv"].a) = 1

\* The element has a time: the key is there, whatever it holds.
TimePresent(l) ==
  /\ Lines[l].doc.o["tpv"].a[1].t = "obj"
  /\ "time" \in DOMAIN Lines[l].doc.o["tpv"].a[1].o

\* The gauges that the step creates or changes.
GaugesTouched ==
  {name \in DOMAIN dynMetricGauges' :
     name \notin DOMAIN dynMetricGauges
       \/ dynMetricGauges'[name] # dynMetricGauges[name]}

TpvNumberNames ==
  {ScalarName("tpv", TPV[i].key) :
     i \in {j \in 1..Len(TPV) : TPV[j].kind \in {"bool", "float64"}}}

OnlyTpvTouched ==
  ProcessReturns /\ OnlyOneTpv(line) =>
    /\ \A rec \in {LastElement(line, "tpv")} :
         \A i \in 1..Len(TPV) :
           TPV[i].kind \in {"bool", "float64"} =>
             /\ ScalarName("tpv", TPV[i].key) \in DOMAIN dynMetricGauges'
             /\ dynMetricGauges'[ScalarName("tpv", TPV[i].key)] = Shown(TPV[i].kind, rec[i])
    /\ GaugesTouched \subseteq
         TpvNumberNames \cup (IF TimePresent(line) THEN {"gpsd_tpv_time"} ELSE {})
    /\ DOMAIN dynMetricGauges \subseteq DOMAIN dynMetricGauges'
    /\ dynMetricGaugeVecs' = dynMetricGaugeVecs

C7_OnlyTpvTouched == [][OnlyTpvTouched]_vars

(***************************************************************************)
(* C8: when processLine runs on a line of fewer than 16 characters, it     *)
(* returns to the reader's loop with the process running, nothing logged,  *)
(* and the gauges, the gauge vectors, the version samples, the             *)
(* registrations and the set of gauges ever set as they were.              *)
(***************************************************************************)
ShortLineDropped ==
  pcReader = "process" /\ Len(Lines[line].text) < 16
     /\ (pcReader' # pcReader \/ status' # status) =>
    /\ pcReader' = "scan"
    /\ status' = "running"
    /\ logged' = {}
    /\ UNCHANGED << dynMetricGauges, dynMetricGaugeVecs, metricVersion, created, wasSet >>

C8_ShortLineDropped == [][ShortLineDropped]_vars

\* processLine has returned from "not json", with gauges, gauge vectors and a
\* version sample in the registry.
C8_Witness ==
  /\ Running
  /\ pcReader = "scan"
  /\ line = 3
  /\ Lines[line].text = "not json"
  /\ "gpsd_tpv_lat" \in DOMAIN dynMetricGauges
  /\ "gpsd_sat_el" \in DOMAIN dynMetricGaugeVecs
  /\ "GPSD v3.25" \in DOMAIN metricVersion

(***************************************************************************)
(* C9: over the fields of the seven structs, two different (shape, field)  *)
(* pairs never get the same metric name, no name of a field of TPV, SKY,   *)
(* GST, TOFF, PPS or OSC is the name of a field of Satellite, no name is   *)
(* gpsd_last_poll or gpsd_version, and every name in the registry is the   *)
(* name of exactly one pair.                                               *)
(***************************************************************************)
ScalarPairs ==
  UNION {{<< ns, Schema(ns)[i].key >> : i \in 1..Len(Schema(ns))} : ns \in PollShapes}

SatPairs == {<< "sat", Satellite[i].key >> : i \in 1..Len(Satellite)}

DerivedName(p) == IF p \in SatPairs THEN SatKey(p[2]) ELSE MetricKey(p[1], p[2])

\* The pairs that get each name, as a table.
PairsNamed ==
  [name \in {DerivedName(p) : p \in ScalarPairs \cup SatPairs} |->
     {p \in ScalarPairs \cup SatPairs : DerivedName(p) = name}] @@ << >>

NamedOnce(name) ==
  /\ name \in DOMAIN PairsNamed
  /\ Cardinality(PairsNamed[name]) = 1
  /\ PairsNamed[name] \subseteq ScalarPairs \/ PairsNamed[name] \subseteq SatPairs
  /\ name \notin FixedNames

C9_NamesInjective ==
  /\ \A name \in (DOMAIN PairsNamed) \cup (DOMAIN created) : NamedOnce(name)
  /\ \A name \in DOMAIN dynMetricGauges : PairsNamed[name] \subseteq ScalarPairs
  /\ \A name \in DOMAIN dynMetricGaugeVecs : PairsNamed[name] \subseteq SatPairs

\* Fields with the same wire key in different shapes are all in the registry.
C9_Witness ==
  /\ Running
  /\ {"gpsd_tpv_lat", "gpsd_gst_lat", "gpsd_pps_real_sec", "gpsd_toff_real_sec",
      "gpsd_tpv_time", "gpsd_sky_time"} \subseteq DOMAIN dynMetricGauges
  /\ {"gpsd_sat_az", "gpsd_sat_used"} \subseteq DOMAIN dynMetricGaugeVecs

(***************************************************************************)
(* C10: no step takes a name out of the gauges, the gauge vectors or the   *)
(* registrations, or registers again a name that is registered; and in     *)
(* every state no name is both a gauge and a gauge vector, every gauge and *)
(* gauge vector is registered, and every registered name was registered    *)
(* once.                                                                   *)
(***************************************************************************)
RegistryGrows ==
  /\ DOMAIN dynMetricGauges \subseteq DOMAIN dynMetricGauges'
  /\ DOMAIN dynMetricGaugeVecs \subseteq DOMAIN dynMetricGaugeVecs'
  /\ DOMAIN created \subseteq DOMAIN created'
  /\ \A name \in DOMAIN created : created'[name] = created[name]

RegisteredOnce ==
  /\ (DOMAIN dynMetricGauges) \cap (DOMAIN dynMetricGaugeVecs) = {}
  /\ DOMAIN created = (DOMAIN dynMetricGauges) \cup (DOMAIN dynMetricGaugeVecs)
  /\ \A name \in DOMAIN created : created[name] = 1

C10_RegistryOnlyGrows == []RegisteredOnce /\ [][RegistryGrows]_vars

\* The second element of LineTpvTwo found the gauges the first had created,
\* after a sky line had created the gauge vectors.
C10_Witness ==
  /\ Running
  /\ pcReader = "scan"
  /\ line = 10
  /\ dynMetricGauges["gpsd_tpv_lat"] = 49
  /\ created["gpsd_tpv_lat"] = 1
  /\ "gpsd_sat_el" \in DOMAIN dynMetricGaugeVecs
  /\ created["gpsd_sat_el"] = 1

---------------------------------------------------------------------------
\* What the claims about the two goroutines are stated with.

\* The conn.Write the poll ticker called in the tick it is in.
TickWrites == {w \in writes : w.by = "poll" /\ w.at = ticks}

\* The poll ticker ends its pass of the loop.
TickEnds == pcPoll # "wait" /\ pcPoll' = "wait"

(***************************************************************************)
(* C11: gpsd_last_poll changes only in a tick whose conn.Write returned    *)
(* without an error, and a tick whose conn.Write returned an error ends    *)
(* with gpsd_last_poll as it was.                                          *)
(***************************************************************************)
LastPollOnlyOnSuccess ==
  /\ metricLastPoll' # metricLastPoll => \E w \in TickWrites : w.res = "ok"
  /\ (TickEnds /\ \E w \in TickWrites : w.res = "failed") =>
       metricLastPoll' = metricLastPoll

C11_LastPollOnlyOnSuccess == [][LastPollOnlyOnSuccess]_vars

(***************************************************************************)
(* C12: when the first net.Dial returns an error, the process ends with    *)
(* log.Fatal, and it ends with no conn.Write called, no line handed to     *)
(* processLine, and nothing in the registry.                               *)
(***************************************************************************)
\* The reader leaves its first net.Dial with no connection.
FirstDialFails ==
  /\ pcReader = "dial" /\ dials = 0
  /\ dials' = dials
  /\ pcReader' # pcReader \/ status' # status

NothingDone ==
  /\ writes = {}
  /\ line = 0
  /\ dynMetricGauges = EmptyMap
  /\ dynMetricGaugeVecs = EmptyMap
  /\ metricVersion = EmptyMap
  /\ created = EmptyMap

FirstDialFailureIsFatal == FirstDialFails => status' = "fatal"

EndedAtFirstDial == (status = "fatal" /\ dials = 0) => NothingDone

C12_FirstDialFailureIsFatal ==
  []EndedAtFirstDial /\ [][FirstDialFailureIsFatal]_vars

\* The first dial has failed, after the poll ticker had ticked with no
\* connection.
C12_Witness == status = "fatal" /\ dials = 0 /\ ticks = 1 /\ pcReader = "dial"

(***************************************************************************)
(* C13: when scanner.Scan() has returned false on the connection the       *)
(* reader was reading, the reader's next pass of its outer loop finds the  *)
(* connection closed and conn nil, and goes on to dial.                    *)
(***************************************************************************)
\* The reader passes if conn == nil after a Scan that returned false.
ChecksAfterReadFailure ==
  /\ pcReader = "check" /\ pcReader' # pcReader
  /\ scanner.made /\ scanner.done

ReaderReconnects ==
  ChecksAfterReadFailure =>
    /\ scanner.src \notin open
    /\ conn = Nil
    /\ pcReader' = "dial"

C13_ReaderReconnectsAfterReadFailure == [][ReaderReconnects]_vars

(***************************************************************************)
(* C14: when the reader's conn.Write after a dial has returned an error,   *)
(* the reader closes the connection and sets conn to nil, goes from there  *)
(* to the top of its loop to dial again, never makes or scans a scanner    *)
(* that reads a nil conn, and the process goes on running.                 *)
(***************************************************************************)
\* The reader takes a step.
ReaderSteps == pcReader' # pcReader \/ scanner' # scanner \/ line' # line

HandshakeFailureRecovers ==
  /\ (pcReader = "close" /\ ReaderSteps) => conn \notin open'
  /\ (pcReader = "setnil" /\ ReaderSteps) =>
       conn' = Nil /\ pcReader' \in {"check", "dial"}
  /\ (scanner' # scanner /\ scanner'.made) => scanner'.src # Nil
  /\ (pcReader = "scan" /\ ReaderSteps) => scanner.made /\ scanner.src # Nil
  /\ (pcReader \in {"close", "setnil", "newscanner", "scan"} /\ pcPoll = "wait") =>
       status' \in {"running", "fatal"}

C14_HandshakeFailureRecovers == [][HandshakeFailureRecovers]_vars

(***************************************************************************)
(* C15: when a net.Dial that is not the first returns an error, the        *)
(* process goes on running and the reader is back at the top of its loop   *)
(* or dialing again.                                                       *)
(***************************************************************************)
\* The reader leaves a net.Dial that is not its first with no connection,
\* while the poll ticker waits for its next tick.
LaterDialFails ==
  /\ pcReader = "dial" /\ dials >= 1
  /\ dials' = dials
  /\ pcReader' # pcReader \/ status' # status
  /\ pcPoll = "wait" /\ pcPoll' = "wait"

LaterDialFailureRetries ==
  LaterDialFails => status' = "running" /\ pcReader' \in {"check", "dial"}

C15_LaterDialFailureRetries == [][LaterDialFailureRetries]_vars

(***************************************************************************)
(* C16: no step of the poll ticker, whether it ticks with no connection,   *)
(* calls conn.Write, or handles what conn.Write returned, changes conn or  *)
(* closes a connection.                                                    *)
(***************************************************************************)
\* The poll ticker takes a step.
PollSteps == pcPoll' # pcPoll \/ ticks' # ticks

PollLeavesConnection == PollSteps => conn' = conn /\ open' = open

C16_PollLeavesConnection == [][PollLeavesConnection]_vars

(***************************************************************************)
(* C17: in every state, the reader and the poll ticker are not both inside *)
(* a conn.Write on the same connection.                                    *)
(***************************************************************************)
C17_WritesSerialized ==
  \A w1 \in Pending("reader") : \A w2 \in Pending("poll") : w1.conn # w2.conn

(***************************************************************************)
(* C18: a tick that finds conn nil ends at once with no conn.Write called  *)
(* and with gpsd_last_poll, conn, the connections and the registry as they *)
(* were; a tick that finds a connection goes on to call conn.Write, still  *)
(* has a connection when it calls it, and calls it once in the tick, with  *)
(* the poll command.                                                       *)
(***************************************************************************)
\* pollTicker.C delivers a tick.
Ticks == ticks' # ticks

TickWhileDisconnectedIsNoOp ==
  (Ticks /\ conn = Nil) =>
    /\ pcPoll' = "wait"
    /\ UNCHANGED << writes, metricLastPoll, conn, open, regVars >>

TickWhileConnectedWritesOnce ==
  /\ (Ticks /\ conn # Nil) => pcPoll' = "write" /\ TickWrites' = {}
  /\ (pcPoll = "write" /\ PollSteps) =>
       /\ Cardinality(TickWrites') = 1
       /\ \A w \in TickWrites' : w.data = "?WATCH={\"enable\": true}\n?POLL;\n"
  /\ (pcPoll \notin {"wait", "write"} /\ PollSteps) =>
       Cardinality(TickWrites') = 1

\* The tick that found a connection has one to write to.
TickStillConnected == pcPoll = "write" => conn # Nil

C18_TickWritesOnlyWhenConnected ==
  /\ []TickStillConnected
  /\ [][TickWhileDisconnectedIsNoOp /\ TickWhileConnectedWritesOnce]_vars

(***************************************************************************)
(* C19: when processLine runs on a POLL line and json.Unmarshal returns an *)
(* error for the array of one of its shapes, no gauge of that shape's      *)
(* namespace (and for sky no gauge vector) is new or changed afterwards,   *)
(* and if that shape is the line's only one the process goes on running.   *)
(***************************************************************************)
\* The shapes of line l whose narrow decode returns an error.
FailedShapes(l) ==
  {ns \in PollShapes \cap PollKeys(Lines[l]) : DecodeFrame(ns, Lines[l].doc.o).err}

DecodeErrorSkipsShape ==
  ProcessRuns =>
    \A ns \in FailedShapes(line) :
      /\ \A name \in NamesOf(ns) :
           /\ name \in DOMAIN dynMetricGauges' <=> name \in DOMAIN dynMetricGauges
           /\ name \in DOMAIN dynMetricGauges =>
                dynMetricGauges'[name] = dynMetricGauges[name]
      /\ ns = "sky" => dynMetricGaugeVecs' = dynMetricGaugeVecs
      /\ PollShapes \cap PollKeys(Lines[line]) = {ns} => status' = "running"

C19_DecodeErrorSkipsShape == [][DecodeErrorSkipsShape]_vars

(***************************************************************************)
(* C20: while the process runs, between two calls of processLine every     *)
(* registered gauge has been set at least once and every registered gauge  *)
(* vector has at least one sample.                                         *)
(***************************************************************************)
C20_NoCreatedButUnset ==
  (Running /\ pcReader # "process") =>
    /\ \A name \in DOMAIN dynMetricGauges : name \in wasSet
    /\ \A name \in DOMAIN dynMetricGaugeVecs : DOMAIN dynMetricGaugeVecs[name] # {}

(***************************************************************************)
(* C21: when processLine returns from a line that carries records of a     *)
(* shape, the gauge of a field whose key is in none of those records       *)
(* exists afterwards only if it existed before, and shows what it showed   *)
(* before.                                                                 *)
(***************************************************************************)
\* Some record of shape ns in line l has the key.
Observed(l, ns, key) ==
  \E e \in 1..Len(Lines[l].doc.o[ns].a) :
    /\ Lines[l].doc.o[ns].a[e].t = "obj"
    /\ key \in DOMAIN Lines[l].doc.o[ns].a[e].o

UnobservedFieldUntouched ==
  ProcessReturns =>
    \A ns \in PollShapes :
      Carries(line, ns) =>
        \A i \in 1..Len(Schema(ns)) :
          ~Observed(line, ns, Schema(ns)[i].key) =>
            /\ ScalarName(ns, Schema(ns)[i].key) \in DOMAIN dynMetricGauges'
                 <=> ScalarName(ns, Schema(ns)[i].key) \in DOMAIN dynMetricGauges
            /\ ScalarName(ns, Schema(ns)[i].key) \in DOMAIN dynMetricGauges =>
                 dynMetricGauges'[ScalarName(ns, Schema(ns)[i].key)]
                   = dynMetricGauges[ScalarName(ns, Schema(ns)[i].key)]

C21_UnobservedFieldUntouched == [][UnobservedFieldUntouched]_vars

(***************************************************************************)
(* C22: when processLine runs on a line of 16 characters or more that is   *)
(* not JSON, the process ends with log.Fatal and the gauges, the gauge     *)
(* vectors, the version samples, the registrations and the set of gauges   *)
(* ever set are as they were; and once the process has ended nothing       *)
(* changes any more.                                                       *)
(***************************************************************************)
BadJsonIsFatal ==
  (ProcessRuns /\ Len(Lines[line].text) >= 16 /\ ~Lines[line].valid) =>
    /\ status' = "fatal"
    /\ UNCHANGED << dynMetricGauges, dynMetricGaugeVecs, metricVersion, created, wasSet >>

NothingAfterTheEnd == status # "running" => UNCHANGED vars

\* processLine takes a step on a line that is long enough and is not JSON.
BadJsonStep ==
  (pcReader = "process" /\ Len(Lines[line].text) >= 16 /\ ~Lines[line].valid
     /\ (pcReader' # pcReader \/ status' # status)) => status' = "fatal"

C22_BadJsonIsFatal == [][BadJsonIsFatal /\ BadJsonStep /\ NothingAfterTheEnd]_vars

\* The process has ended on "this is not json at all", with gauges in the
\* registry.
C22_Witness ==
  /\ status = "fatal"
  /\ line = 16
  /\ Lines[line].text = "this is not json at all"
  /\ "gpsd_tpv_lat" \in DOMAIN dynMetricGauges
  /\ "gpsd_sat_el" \in DOMAIN dynMetricGaugeVecs

(***************************************************************************)
(* C23: when processLine runs on a POLL line that has keys other than      *)
(* class and the six shapes, it returns, and the gauges, the gauge         *)
(* vectors, the version samples and the registrations are afterwards what  *)
(* processLine makes of the same line without those keys; and a POLL line  *)
(* with no shape key leaves them as they were.                             *)
(***************************************************************************)
\* The keys of POLL line l that are neither class nor a shape.
OtherKeys(l) == PollKeys(Lines[l]) \ (PollShapes \cup {"class"})

\* Line l without those keys.
Stripped(l) ==
  [Lines[l] EXCEPT !.doc.o = [k \in PollKeys(Lines[l]) \ OtherKeys(l) |-> @[k]]]

SameRegistry(R) ==
  /\ dynMetricGauges' = R.g
  /\ dynMetricGaugeVecs' = R.gv
  /\ metricVersion' = R.ver
  /\ created' = R.created
  /\ wasSet' = R.wasSet
  /\ status' = R.st

OtherKeysIgnored ==
  /\ (ProcessRuns /\ OtherKeys(line) # {}) =>
       /\ \A order \in Orders(PollKeys(Stripped(line))) :
            SameRegistry(processLine(Reg, Stripped(line), order))
       /\ OtherKeys(line) \ PollIgnored # {} => status' = "running"
  /\ (ProcessRuns /\ PollKeys(Lines[line]) # {}
        /\ PollKeys(Lines[line]) \cap PollShapes = {}) =>
       /\ status' = "running"
       /\ UNCHANGED << dynMetricGauges, dynMetricGaugeVecs, metricVersion, created, wasSet >>

C23_OtherKeysIgnored == [][OtherKeysIgnored]_vars

\* processLine has returned from the line with the key rtk, with its gst and
\* osc records projected.
C23_Witness ==
  /\ Running
  /\ pcReader = "scan"
  /\ line = 14
  /\ "rtk" \in OtherKeys(line)
  /\ "unknown" \in logged
  /\ dynMetricGauges["gpsd_gst_rms"] = 2
  /\ dynMetricGauges["gpsd_osc_running"] = 1

(***************************************************************************)
(* C24: when processLine runs on a line of 16 characters or more that is   *)
(* JSON and is not an object whose class is VERSION or POLL, it returns    *)
(* with the process running and the gauges, the gauge vectors, the version *)
(* samples and the registrations as they were.                             *)
(***************************************************************************)
\* Line l is a JSON object whose class is the string c.
HasClass(l, c) ==
  /\ Lines[l].doc.t = "obj"
  /\ "class" \in DOMAIN Lines[l].doc.o
  /\ Lines[l].doc.o["class"] = JStr(c)

OtherLine(l) ==
  /\ Len(Lines[l].text) >= 16
  /\ Lines[l].valid
  /\ ~HasClass(l, "VERSION")
  /\ ~HasClass(l, "POLL")

OtherClassIgnored ==
  (pcReader = "process" /\ OtherLine(line) /\ (pcReader' # pcReader \/ status' # status)) =>
    /\ pcReader' = "scan"
    /\ status' = "running"
    /\ UNCHANGED << dynMetricGauges, dynMetricGaugeVecs, metricVersion, created, wasSet >>

C24_OtherClassIgnored == [][OtherClassIgnored]_vars

(***************************************************************************)
(* C25: in every state, a goroutine that is about to call conn.Write or    *)
(* conn.Close has a conn that is not nil, and the scanner the reader made  *)
(* or is about to scan reads a conn that is not nil.                       *)
(***************************************************************************)
C25_NoUseOfNilConn ==
  /\ pcReader \in {"write", "close"} => conn # Nil
  /\ pcPoll \in {"write", "close"} => conn # Nil
  /\ scanner.made => scanner.src # Nil
  /\ pcReader = "scan" => scanner.made

(***************************************************************************)
(* C26: the registry after a POLL line does not depend on the order in     *)
(* which its top-level keys are visited: whichever order the range over    *)
(* the map took in the step, every other order of the same keys ends the   *)
(* process or returns as this one did, and when processLine returns every  *)
(* order leaves the same gauges, gauge vectors and version samples with    *)
(* the same values.  The orders are the permutations of the shape keys of  *)
(* the line; the other keys change no entry in any position.               *)
(***************************************************************************)
ShapeKeys(l) == PollKeys(Lines[l]) \cap PollShapes

OrderIndependent ==
  (ProcessRuns /\ ShapeKeys(line) # {}) =>
    \A order \in Orders(ShapeKeys(line)) :
      \E R \in {processLine(Reg, Lines[line], order)} :
        /\ (R.st = "running") <=> (status' = "running")
        /\ status' = "running" => SameRegistry(R)

C26_OrderIndependent == [][OrderIndependent]_vars

\* LinePpsToff, with two shapes under three keys, was processed.
C26_Witness ==
  /\ line = 13
  /\ pcReader = "scan"
  /\ status = "running"
  /\ Cardinality(ShapeKeys(line)) = 2
  /\ "gpsd_pps_real_sec" \in DOMAIN dynMetricGauges
  /\ dynMetricGauges["gpsd_pps_real_sec"] = 10
  /\ "gpsd_toff_real_sec" \in DOMAIN dynMetricGauges
  /\ dynMetricGauges["gpsd_toff_real_sec"] = 11

====
